---- MODULE Spec2Model ----
(***************************************************************************)
(* Model of src/native/Clock.c: the two JNI entry points                   *)
(*   Java_com_gurock_smartinspect_Clock_getCounter                         *)
(*   Java_com_gurock_smartinspect_Clock_getFrequency                       *)
(* Each call runs on a Java thread, owns one automatic jlong, hands its    *)
(* address to the OS (QueryPerformanceCounter / QueryPerformanceFrequency) *)
(* as a LARGE_INTEGER *, overwrites the jlong with 0 when the OS reports   *)
(* failure, and returns the jlong.  The OS is the environment: it owns the *)
(* performance counter (which only moves forward) and its frequency (fixed *)
(* at boot), and decides for every query whether it succeeds.              *)
(***************************************************************************)
EXTENDS Integers, FiniteSets

\* Number of Java threads calling into the library.
NumThreads == 2

\* Largest value of a jlong / LONGLONG in the model (2^63 - 1 in the build);
\* the smallest is -MaxJlong - 1, as in two's complement.
MaxJlong == 1

VARIABLES
    perfCounter,      \* OS: current value of the performance counter
    perfFrequency,    \* OS: ticks per second of the counter
    pc,               \* per thread: position inside the native call
    fn,               \* per thread: which entry point is being executed
    count,            \* per stack slot: storage of the local jlong (a word)
    ok,               \* per thread: BOOL returned by the OS query of this call
    result,           \* per thread: jlong handed back to the Java caller
    exceptionPending, \* per thread: the JNIEnv has a pending exception
    delivered,        \* per call: value the OS produced for this call's query
    queries,          \* per call: OS queries made by the call so far
    prevFailed,       \* history: the thread's previous call had a failing query
    lastTicks,        \* history: the thread's latest successful getCounter result
    freqSeen,         \* history: every value getFrequency has returned
    freqHealthy,      \* history: no frequency query has failed so far
    freqRepeated      \* history: getFrequency has returned more than once

vars == <<perfCounter, perfFrequency, pc, fn, count, ok, result,
          exceptionPending, delivered, queries, prevFailed, lastTicks,
          freqSeen, freqHealthy, freqRepeated>>

Threads == 1..NumThreads

Functions == {"getCounter", "getFrequency"}

NoFunction == "none"

\* The signed values a jlong / LONGLONG can hold.
MinJlong == 0 - MaxJlong - 1

Values == MinJlong..MaxJlong

\* Number of distinct words of storage (2^64 in the build).
Modulus == 2 * (MaxJlong + 1)

\* The contents one word of storage can have.
Words == 0..(Modulus - 1)

\* Marks "no value": a frame that does not exist, a result not yet returned.
None == 2 * Modulus

\* Marks storage that has never been written.
Indeterminate == 3 * Modulus

\* A static variable instead of an automatic one: every call uses the same
\* storage.
StaticSlot(t) == 1

\* jlong count; / jlong frequency; -- an automatic variable: each call has
\* its own storage.
Slot(t) == t

\* Both entry points asking for the counter.
CounterForBoth(f) == perfCounter

\* Which OS quantity the entry point asks for: QueryPerformanceCounter in
\* getCounter, QueryPerformanceFrequency in getFrequency.
OsValue(f) == IF f = "getCounter" THEN perfCounter ELSE perfFrequency

\* (LARGE_INTEGER *) &count -- the OS writes its signed QuadPart into the
\* storage of the jlong.
StoreLargeInteger(v) == v % Modulus

\* Only the low half of the word is returned (a local narrower than jlong).
LoadLowHalf(b) == b % (MaxJlong + 1)

\* The storage read back as an unsigned quantity.
LoadUnsigned(b) == b

\* return count; -- the storage read back as a signed jlong.
LoadJlong(b) == IF b > MaxJlong THEN b - Modulus ELSE b

\* A failure indicator other than zero.
MinusOne(f) == 0 - 1

\* count = 0; frequency = 0; -- the value that indicates failure.
FailureValue(f) == 0

\* The failure of the query is ignored.
UncheckedWord(t) == count[Slot(t)]

\* The test of the query's result without its negation.
InvertedCheckedWord(t) ==
    IF ok[t] THEN StoreLargeInteger(FailureValue(fn[t])) ELSE count[Slot(t)]

\* A failure that is remembered: once a query failed the next call fails too.
StickyCheckedWord(t) ==
    IF ~ok[t] \/ prevFailed[t] THEN StoreLargeInteger(FailureValue(fn[t]))
                               ELSE count[Slot(t)]

\* if (!Query...(...)) { count = 0; } -- the storage after the if statement.
CheckedWord(t) ==
    IF ~ok[t] THEN StoreLargeInteger(FailureValue(fn[t])) ELSE count[Slot(t)]

Init ==
    /\ perfCounter = MinJlong
    /\ perfFrequency \in Values
    /\ pc = [t \in Threads |-> "idle"]
    /\ fn = [t \in Threads |-> NoFunction]
    /\ count = [t \in Threads |-> None]
    /\ ok = [t \in Threads |-> FALSE]
    /\ result = [t \in Threads |-> None]
    /\ exceptionPending = [t \in Threads |-> FALSE]
    /\ delivered = [t \in Threads |-> None]
    /\ queries = [t \in Threads |-> 0]
    /\ prevFailed = [t \in Threads |-> FALSE]
    /\ lastTicks = [t \in Threads |-> None]
    /\ freqSeen = {}
    /\ freqHealthy = TRUE
    /\ freqRepeated = FALSE

\* The Java thread enters the native function f: the local jlong exists and
\* is indeterminate until something is written to it.
Enter(t, f) ==
    /\ pc[t] = "idle"
    /\ pc' = [pc EXCEPT ![t] = "query"]
    /\ fn' = [fn EXCEPT ![t] = f]
    /\ count' = [count EXCEPT ![Slot(t)] = Indeterminate]
    /\ ok' = [ok EXCEPT ![t] = FALSE]
    /\ result' = [result EXCEPT ![t] = None]
    /\ delivered' = [delivered EXCEPT ![t] = None]
    /\ queries' = [queries EXCEPT ![t] = 0]
    /\ UNCHANGED <<perfCounter, perfFrequency, exceptionPending>>

\* QueryPerformanceCounter / QueryPerformanceFrequency returns nonzero: the
\* OS has written the value into the caller's storage.
QuerySucceeds(t) ==
    /\ pc[t] = "query"
    /\ pc' = [pc EXCEPT ![t] = "check"]
    /\ count' = [count EXCEPT ![Slot(t)] = StoreLargeInteger(OsValue(fn[t]))]
    /\ ok' = [ok EXCEPT ![t] = TRUE]
    /\ delivered' = [delivered EXCEPT ![t] =
                        IF fn[t] = "getCounter" THEN perfCounter
                                                ELSE perfFrequency]
    /\ queries' = [queries EXCEPT ![t] = queries[t] + 1]
    /\ UNCHANGED <<perfCounter, perfFrequency, fn, result, exceptionPending>>

\* The OS query returns zero: the storage is left as it was or holds
\* whatever the OS put there.
QueryFails(t) ==
    /\ pc[t] = "query"
    /\ pc' = [pc EXCEPT ![t] = "check"]
    /\ \E w \in Words \cup {count[Slot(t)]} :
          count' = [count EXCEPT ![Slot(t)] = w]
    /\ ok' = [ok EXCEPT ![t] = FALSE]
    /\ queries' = [queries EXCEPT ![t] = queries[t] + 1]
    /\ UNCHANGED <<perfCounter, perfFrequency, fn, result, exceptionPending,
                   delivered>>

\* The if statement after the query.
Check(t) ==
    /\ pc[t] = "check"
    /\ pc' = [pc EXCEPT ![t] = "return"]
    /\ count' = [count EXCEPT ![Slot(t)] = CheckedWord(t)]
    /\ UNCHANGED <<perfCounter, perfFrequency, fn, ok, result,
                   exceptionPending, delivered, queries>>

\* return count; -- the value goes back to the Java caller and the frame
\* is gone.
Return(t) ==
    /\ pc[t] = "return"
    /\ pc' = [pc EXCEPT ![t] = "idle"]
    /\ result' = [result EXCEPT ![t] = LoadJlong(count[Slot(t)])]
    /\ count' = [count EXCEPT ![Slot(t)] = None]
    /\ UNCHANGED <<perfCounter, perfFrequency, fn, ok, exceptionPending,
                   delivered, queries>>

\* The hardware counter advances.
Tick ==
    /\ perfCounter < MaxJlong
    /\ perfCounter' = perfCounter + 1
    /\ UNCHANGED <<perfFrequency, pc, fn, count, ok, result,
                   exceptionPending, delivered, queries>>

\* The history of earlier calls is not recorded.
Unrecorded ==
    UNCHANGED <<prevFailed, lastTicks, freqSeen, freqHealthy, freqRepeated>>

\* Any number of threads calling concurrently.
Next ==
    \/ \E t \in Threads : \E f \in Functions : Enter(t, f) /\ Unrecorded
    \/ \E t \in Threads : QuerySucceeds(t) /\ Unrecorded
    \/ \E t \in Threads : QueryFails(t) /\ Unrecorded
    \/ \E t \in Threads : Check(t) /\ Unrecorded
    \/ \E t \in Threads : Return(t) /\ Unrecorded
    \/ Tick /\ Unrecorded

Spec == Init /\ [][Next]_vars

\* What the call that thread t has just completed leaves in the history,
\* recorded when the thread calls again.
RecordCall(t) ==
    /\ prevFailed' = [prevFailed EXCEPT ![t] = result[t] # None /\ ~ok[t]]
    /\ lastTicks' = [lastTicks EXCEPT ![t] =
                        IF result[t] # None /\ ok[t] /\ fn[t] = "getCounter"
                        THEN result[t] ELSE lastTicks[t]]
    /\ UNCHANGED <<freqSeen, freqHealthy, freqRepeated>>

RecordFailure(t) ==
    /\ freqHealthy' = (freqHealthy /\ fn[t] # "getFrequency")
    /\ UNCHANGED <<prevFailed, lastTicks, freqSeen, freqRepeated>>

RecordReturn(t) ==
    /\ freqSeen' = IF fn[t] = "getFrequency"
                   THEN freqSeen \cup {result'[t]} ELSE freqSeen
    /\ freqRepeated' = (freqRepeated \/
                           (fn[t] = "getFrequency" /\ freqSeen # {}))
    /\ UNCHANGED <<prevFailed, lastTicks, freqHealthy>>

\* One thread calling the library again and again.
Caller == CHOOSE t \in Threads : \A u \in Threads : t <= u

SameThreadNext ==
    \/ \E f \in Functions : Enter(Caller, f) /\ RecordCall(Caller)
    \/ QuerySucceeds(Caller) /\ Unrecorded
    \/ QueryFails(Caller) /\ RecordFailure(Caller)
    \/ Check(Caller) /\ Unrecorded
    \/ Return(Caller) /\ RecordReturn(Caller)
    \/ Tick /\ Unrecorded

SameThreadSpec == Init /\ [][SameThreadNext]_vars

\* Thread t has a completed call whose result the Java caller holds.
Returned(t) == pc[t] = "idle" /\ result[t] # None

\* C1: whenever the OS counter query of a getCounter call reports failure,
\* the call returns exactly 0 through its normal return path, whatever the
\* OS left in the local variable, and no exception is pending for the caller.
C1_CounterFailureReturnsZero ==
    \A t \in Threads :
        /\ (pc[t] = "return" /\ fn[t] = "getCounter" /\ ~ok[t])
               => count[Slot(t)] = 0
        /\ (Returned(t) /\ fn[t] = "getCounter" /\ ~ok[t])
               => (result[t] = 0 /\ ~exceptionPending[t])

C1_Witness ==
    \E t \in Threads :
        Returned(t) /\ fn[t] = "getCounter" /\ ~ok[t] /\ result[t] = 0

\* C2: whenever the OS frequency query of a getFrequency call reports
\* failure, the call returns exactly 0 through its normal return path,
\* whatever the OS left in the local variable, and no exception is pending.
C2_FrequencyFailureReturnsZero ==
    \A t \in Threads :
        /\ (pc[t] = "return" /\ fn[t] = "getFrequency" /\ ~ok[t])
               => count[Slot(t)] = 0
        /\ (Returned(t) /\ fn[t] = "getFrequency" /\ ~ok[t])
               => (result[t] = 0 /\ ~exceptionPending[t])

C2_Witness ==
    \E t \in Threads :
        /\ Returned(t) /\ fn[t] = "getFrequency" /\ ~ok[t] /\ result[t] = 0
        /\ perfFrequency # 0

\* C3: whenever the OS counter query succeeds, getCounter returns exactly
\* the value the OS produced for that call, for every value of the jlong
\* range, zero and negative values included.
C3_CounterSuccessReturnsOsValue ==
    \A t \in Threads :
        (Returned(t) /\ fn[t] = "getCounter" /\ ok[t])
            => (result[t] = delivered[t] /\ result[t] \in Values)

C3_Witness ==
    \E t \in Threads :
        /\ Returned(t) /\ fn[t] = "getCounter" /\ ok[t]
        /\ delivered[t] < 0 /\ result[t] = delivered[t]

\* C4: whenever the OS frequency query succeeds, getFrequency returns exactly
\* the ticks-per-second value of the OS, for every value of the jlong range.
C4_FrequencySuccessReturnsOsValue ==
    \A t \in Threads :
        (Returned(t) /\ fn[t] = "getFrequency" /\ ok[t])
            => result[t] = perfFrequency

C4_Witness ==
    \E t \in Threads :
        /\ Returned(t) /\ fn[t] = "getFrequency" /\ ok[t]
        /\ result[t] = MaxJlong /\ perfCounter # perfFrequency

\* C5: on one thread, a successful getCounter call never returns less than
\* an earlier successful getCounter call of that thread; a getCounter result
\* lower than an earlier successful one comes from a failed call and is 0.
C5_TicksNonDecreasing ==
    \A t \in Threads :
        (Returned(t) /\ fn[t] = "getCounter" /\ lastTicks[t] # None
                     /\ result[t] < lastTicks[t])
            => (~ok[t] /\ result[t] = 0)

C5_Witness ==
    /\ Returned(Caller) /\ fn[Caller] = "getCounter" /\ ok[Caller]
    /\ lastTicks[Caller] # None /\ lastTicks[Caller] < result[Caller]
    /\ prevFailed[Caller]

\* C6: while no OS frequency query has failed, all getFrequency calls of the
\* run, with any getCounter calls between them, have returned one and the
\* same value.
C6_FrequencyStable ==
    freqHealthy => Cardinality(freqSeen) <= 1

C6_Witness ==
    /\ freqHealthy /\ freqRepeated /\ Cardinality(freqSeen) = 1
    /\ lastTicks[Caller] # None /\ perfCounter # lastTicks[Caller]

\* C7: under any interleaving of calls from several threads, what a call
\* holds after its query and what it returns is the value the OS delivered
\* to that very call, or 0 when that call's query failed; no other thread's
\* call alters it.
C7_NoInterference ==
    \A t \in Threads :
        /\ (pc[t] \in {"check", "return"} /\ ok[t])
               => (count[Slot(t)] \in Words
                      /\ LoadJlong(count[Slot(t)]) = delivered[t])
        /\ Returned(t)
               => result[t] = (IF ok[t] THEN delivered[t] ELSE 0)

C7_Witness ==
    \E t \in Threads : \E u \in Threads \ {t} :
        /\ Returned(t) /\ ok[t] /\ fn[t] = "getCounter"
        /\ pc[u] = "return" /\ ok[u] /\ fn[u] = "getCounter"
        /\ delivered[u] < delivered[t]

\* C8: a step of a call changes nothing but that call's own local variable,
\* position and result: the OS counter and frequency, the pending-exception
\* state and everything belonging to the other threads stay as they were.
C8_FrameStep ==
    \A t \in Threads :
        pc'[t] # pc[t] =>
            /\ perfCounter' = perfCounter
            /\ perfFrequency' = perfFrequency
            /\ exceptionPending' = exceptionPending
            /\ \A u \in Threads \ {t} :
                   /\ pc'[u] = pc[u]
                   /\ fn'[u] = fn[u]
                   /\ count'[u] = count[u]
                   /\ ok'[u] = ok[u]
                   /\ result'[u] = result[u]
                   /\ delivered'[u] = delivered[u]

C8_SideEffectFree == [][C8_FrameStep]_vars

C8_Witness ==
    \E t \in Threads : \E u \in Threads \ {t} :
        /\ Returned(t) /\ ~ok[t]
        /\ pc[u] = "return" /\ ok[u] /\ count[u] \in Words \ {0}

\* C9: a call whose query succeeds with the value 0 and a call whose query
\* fails both return 0, so a returned 0 does not tell the two apart, while a
\* returned non-zero value means the query succeeded.
C9_ZeroIsAmbiguous ==
    \A t \in Threads :
        Returned(t) =>
            /\ result[t] # 0 => ok[t]
            /\ (~ok[t] \/ delivered[t] = 0) => result[t] = 0

C9_Witness ==
    \E t \in Threads : \E u \in Threads \ {t} :
        /\ Returned(t) /\ Returned(u) /\ fn[t] = fn[u]
        /\ ok[t] /\ ~ok[u]
        /\ result[t] = 0 /\ result[u] = 0

\* C10: every call makes exactly one OS query of its own; a call that
\* follows a failed call returns the OS value as soon as its own query
\* succeeds, and a successful call returns the value of its own query, not
\* one kept from an earlier call.
C10_ComputedOnDemand ==
    \A t \in Threads :
        /\ pc[t] = "query" => queries[t] = 0
        /\ (pc[t] \in {"check", "return"} \/ Returned(t)) => queries[t] = 1
        /\ (Returned(t) /\ ok[t] /\ prevFailed[t]) => result[t] = delivered[t]
        /\ (Returned(t) /\ ok[t] /\ fn[t] = "getCounter"
                        /\ lastTicks[t] # None)
               => result[t] = delivered[t]

C10_Witness ==
    /\ Returned(Caller) /\ ok[Caller] /\ prevFailed[Caller]
    /\ fn[Caller] = "getCounter" /\ result[Caller] # 0
    /\ lastTicks[Caller] # None /\ lastTicks[Caller] # result[Caller]

====
